---- MODULE Spec2Model ----
(***************************************************************************)
(* A model of myvmk-cal.py: the scraper that turns the rendered MyVMK      *)
(* events calendar into an .ics feed.                                      *)
(*                                                                         *)
(* Strings are sequences of one-character strings, so that the regular     *)
(* expressions, strptime, str.replace and str.join of the source are       *)
(* computed character by character.                                        *)
(***************************************************************************)
EXTENDS Integers, Sequences, FiniteSets, TLC

VARIABLES
    tText,      \* parse_time_range: the argument text (optional string)
    tBase,      \* parse_time_range: the argument base_date
    tRes,       \* parse_time_range: what the call returned or raised
    tPc,        \* parse_time_range: "call" before the call, "done" after
    eIn,        \* ics_escape: the argument s
    eOut,       \* ics_escape: the returned string
    ePc,        \* ics_escape: "call" before the call, "done" after
    bEvents,    \* build_ics: the argument events (a list of dicts)
    bTz,        \* build_ics: the argument tzid (optional string)
    bNow,       \* build_ics: what the clock reads when the call starts
    bUids,      \* build_ics: the uid computed in each iteration of its loop
    bDoc,       \* build_ics: the returned document text
    bPc,        \* build_ics: "call" before the call, "done" after
    scene,          \* main: what the calendar page at the URL holds
    forced_year,    \* main: args.year (0: not given)
    forced_month,   \* main: args.month (0: not given)
    verbose,        \* main: args.verbose
    render_ok,      \* environment: load_html returns (else it raises)
    debug_ok,       \* environment: calendar_debug.html can be written
    out_ok,         \* environment: args.out can be written
    now,            \* environment: the clock build_ics reads
    pc,             \* main: where the run is
    html,           \* scrape_events: the rendered page
    year,           \* scrape_events: year
    month,          \* scrape_events: month
    all_day_divs,   \* scrape_events: all_day_divs
    day_i,          \* scrape_events: the position of the loop in all_day_divs
    base_date,      \* scrape_events: base_date
    li_nodes,       \* scrape_events: li_nodes
    li_i,           \* scrape_events: the position of the loop in li_nodes
    title,          \* scrape_events: title
    time_txt,       \* scrape_events: time_txt
    events,         \* scrape_events: events
    ics_text,       \* main: ics_text
    out_file,       \* the content of the file args.out
    debug_file,     \* the content of calendar_debug.html
    exit_status,    \* the exit status of the process
    prior           \* what an earlier run on the same inputs ended with

tvars == <<tText, tBase, tRes, tPc>>
evars == <<eIn, eOut, ePc>>
bvars == <<bEvents, bTz, bNow, bUids, bDoc, bPc>>
rvars == <<scene, forced_year, forced_month, verbose, render_ok, debug_ok, out_ok, now,
           pc, html, year, month, all_day_divs, day_i, base_date, li_nodes, li_i,
           title, time_txt, events, ics_text, out_file, debug_file, exit_status, prior>>
vars == <<tvars, evars, bvars, rvars>>

(***************************************************************************)
(* Bounds of the model.                                                    *)
(***************************************************************************)
\* how many whitespace characters are tried around the range separator
MaxPad == 1
\* the longest string given to ics_escape
MaxLen == 4
\* the longest event list given to build_ics
MaxEvents == 2

(***************************************************************************)
(* Characters and strings.                                                 *)
(***************************************************************************)
Digits == {"0", "1", "2", "3", "4", "5", "6", "7", "8", "9"}

\* the characters the regular expression class \s matches, among those used
Whitespace == {" ", "\t", "\n"}

DigitVal(c) ==
    CASE c = "0" -> 0 [] c = "1" -> 1 [] c = "2" -> 2 [] c = "3" -> 3
      [] c = "4" -> 4 [] c = "5" -> 5 [] c = "6" -> 6 [] c = "7" -> 7
      [] c = "8" -> 8 [] c = "9" -> 9

DigitChar(n) ==
    CASE n = 0 -> "0" [] n = 1 -> "1" [] n = 2 -> "2" [] n = 3 -> "3"
      [] n = 4 -> "4" [] n = 5 -> "5" [] n = 6 -> "6" [] n = 7 -> "7"
      [] n = 8 -> "8" [] n = 9 -> "9"

\* str.upper() on the characters a time text is made of
Upper(c) ==
    CASE c = "a" -> "A" [] c = "p" -> "P" [] c = "m" -> "M" [] c = "x" -> "X"
      [] OTHER -> c

UpperStr(s) == [i \in 1..Len(s) |-> Upper(s[i])]

\* s.replace(" ", ""): only the space character is removed
RECURSIVE RemoveSpaces(_)
RemoveSpaces(s) ==
    IF s = <<>> THEN <<>>
    ELSE IF Head(s) = " " THEN RemoveSpaces(Tail(s))
    ELSE <<Head(s)>> \o RemoveSpaces(Tail(s))

CharAt(s, i) == IF i >= 1 /\ i <= Len(s) THEN s[i] ELSE "EOS"

(***************************************************************************)
(* Dates: datetime.date and datetime.datetime (naive, second = 0).         *)
(***************************************************************************)
MINYEAR == 1
MAXYEAR == 9999

IsLeap(y) == (y % 4 = 0) /\ ((y % 100 # 0) \/ (y % 400 = 0))

DaysInMonth(y, m) ==
    IF m = 2 THEN (IF IsLeap(y) THEN 29 ELSE 28)
    ELSE IF m \in {4, 6, 9, 11} THEN 30 ELSE 31

\* dt.date(y, m, d) succeeds
ValidDate(y, m, d) ==
    /\ y >= MINYEAR /\ y <= MAXYEAR
    /\ m >= 1 /\ m <= 12
    /\ d >= 1 /\ d <= DaysInMonth(y, m)

\* dt.datetime.combine(base_date, dt.time(h, mi))
Combine(date, h, mi) == [y |-> date.y, m |-> date.m, d |-> date.d, h |-> h, mi |-> mi]

DateOf(t) == [y |-> t.y, m |-> t.m, d |-> t.d]

\* datetime comparison: lexicographic on (y, m, d, h, mi)
DtLess(a, b) ==
    \/ a.y < b.y
    \/ a.y = b.y /\ a.m < b.m
    \/ a.y = b.y /\ a.m = b.m /\ a.d < b.d
    \/ a.y = b.y /\ a.m = b.m /\ a.d = b.d /\ a.h < b.h
    \/ a.y = b.y /\ a.m = b.m /\ a.d = b.d /\ a.h = b.h /\ a.mi < b.mi

DtLeq(a, b) == a = b \/ DtLess(a, b)

\* t + timedelta(days=1) overflows past 9999-12-31
LastDay(t) == t.y = MAXYEAR /\ t.m = 12 /\ t.d = 31

PlusOneDay(t) ==
    IF t.d < DaysInMonth(t.y, t.m) THEN [t EXCEPT !.d = t.d + 1]
    ELSE IF t.m < 12 THEN [t EXCEPT !.d = 1, !.m = t.m + 1]
    ELSE [t EXCEPT !.d = 1, !.m = 1, !.y = t.y + 1]

\* a fallback that spans the whole day, to the next midnight
PlusFullDay(t) == PlusOneDay(t)

\* t + timedelta(hours=23, minutes=59), for t at 00:00
Plus2359(t) ==
    LET total == t.h * 60 + t.mi + 23 * 60 + 59
        u == [t EXCEPT !.h = (total % 1440) \div 60, !.mi = total % 60]
    IN  IF total < 1440 THEN u ELSE PlusOneDay(u)

(***************************************************************************)
(* TIME_RANGE_RE, matched from the start of the text as re.match does.     *)
(***************************************************************************)
RECURSIVE SkipWs(_, _)
\* \s* is greedy and what follows it is never whitespace: skip all of it
SkipWs(s, i) ==
    IF i <= Len(s) /\ s[i] \in Whitespace THEN SkipWs(s, i + 1) ELSE i

\* [0-9]{1,2}:[0-9]{2}\s*[AP]M at position i, case-insensitive;
\* the position after it, or 0 when there is no match
TimeAt(s, i) ==
    LET n == IF CharAt(s, i) \in Digits /\ CharAt(s, i + 1) \in Digits THEN 2
             ELSE IF CharAt(s, i) \in Digits THEN 1 ELSE 0
        c == i + n
        a == SkipWs(s, c + 3)
    IN  IF /\ n > 0
           /\ CharAt(s, c) = ":"
           /\ CharAt(s, c + 1) \in Digits
           /\ CharAt(s, c + 2) \in Digits
           /\ CharAt(s, a) \in {"A", "P", "a", "p"}
           /\ CharAt(s, a + 1) \in {"M", "m"}
        THEN a + 2 ELSE 0

\* the match object: ok, and the two groups
TIME_RANGE_RE(s) ==
    LET b1 == SkipWs(s, 1)
        e1 == TimeAt(s, b1)
        dash == SkipWs(s, e1)
        b2 == SkipWs(s, dash + 1)
        e2 == TimeAt(s, b2)
        fin == SkipWs(s, e2)
    IN  IF e1 > 0 /\ CharAt(s, dash) = "-" /\ e2 > 0 /\ fin = Len(s) + 1
        THEN [ok |-> TRUE, g1 |-> SubSeq(s, b1, e1 - 1), g2 |-> SubSeq(s, b2, e2 - 1)]
        ELSE [ok |-> FALSE, g1 |-> <<>>, g2 |-> <<>>]

(***************************************************************************)
(* datetime.strptime(s, "%I:%M%p"): the directive %I is the regular        *)
(* expression 1[0-2]|0[1-9]|[1-9], %M is [0-5]\d|\d, %p is am|pm           *)
(* (case-insensitive), and the whole string must be consumed.              *)
(***************************************************************************)
HourDirective(h) ==
    \/ Len(h) = 2 /\ h[1] = "1" /\ h[2] \in {"0", "1", "2"}
    \/ Len(h) = 2 /\ h[1] = "0" /\ h[2] \in Digits \ {"0"}
    \/ Len(h) = 1 /\ h[1] \in Digits \ {"0"}

MinuteDirective(m) ==
    \/ Len(m) = 2 /\ m[1] \in {"0", "1", "2", "3", "4", "5"} /\ m[2] \in Digits
    \/ Len(m) = 1 /\ m[1] \in Digits

NumVal(d) == IF Len(d) = 1 THEN DigitVal(d[1]) ELSE 10 * DigitVal(d[1]) + DigitVal(d[2])

\* the ways the format can consume all of s: <<length of %I, length of %M>>
StrptimeParses(s) ==
    {p \in {1, 2} \X {1, 2} :
        /\ Len(s) = p[1] + 1 + p[2] + 2
        /\ HourDirective(SubSeq(s, 1, p[1]))
        /\ s[p[1] + 1] = ":"
        /\ MinuteDirective(SubSeq(s, p[1] + 2, p[1] + 1 + p[2]))
        /\ s[Len(s) - 1] \in {"A", "P", "a", "p"}
        /\ s[Len(s)] \in {"M", "m"}}

\* the 12-hour clock value as strptime converts it
Hour24(h12, pm) ==
    IF pm THEN (IF h12 = 12 THEN 12 ELSE h12 + 12)
    ELSE (IF h12 = 12 THEN 0 ELSE h12)

strptime(s) ==
    IF StrptimeParses(s) = {} THEN [ok |-> FALSE, hour |-> 0, minute |-> 0]
    ELSE LET p == CHOOSE q \in StrptimeParses(s) : TRUE
         IN  [ok |-> TRUE,
              hour |-> Hour24(NumVal(SubSeq(s, 1, p[1])), s[Len(s) - 1] \in {"P", "p"}),
              minute |-> NumVal(SubSeq(s, p[1] + 2, p[1] + 1 + p[2]))]

\* to_hm(s): strptime of s.upper().replace(" ", "")
to_hm(s) == strptime(RemoveSpaces(UpperStr(s)))

(***************************************************************************)
(* parse_time_range(text, base_date).  An optional text is                 *)
(* [some |-> FALSE] for None; `text or ""` turns None into "".             *)
(***************************************************************************)
NoText == [some |-> FALSE, v |-> <<>>]
SomeText(s) == [some |-> TRUE, v |-> s]
OrEmpty(x) == IF x.some THEN x.v ELSE <<>>

Returned(start, end) == [kind |-> "return", start |-> start, end |-> end]
Raised(exc) == [kind |-> exc, start |-> <<>>, end |-> <<>>]

parse_time_range(text, base) ==
    LET m == TIME_RANGE_RE(OrEmpty(text))
    IN  IF ~m.ok
        THEN LET start == Combine(base, 0, 0)
             IN  Returned(start, Plus2359(start))
        ELSE LET s == to_hm(m.g1)
                 e == to_hm(m.g2)
             IN  IF ~s.ok \/ ~e.ok THEN Raised("ValueError")
                 ELSE LET start == Combine(base, s.hour, s.minute)
                          end == Combine(base, e.hour, e.minute)
                      IN  IF DtLeq(end, start)
                          THEN (IF LastDay(end) THEN Raised("OverflowError")
                                ELSE Returned(start, PlusOneDay(end)))
                          ELSE Returned(start, end)

(***************************************************************************)
(* ics_escape: three str.replace passes, the backslash first.              *)
(***************************************************************************)
RECURSIVE Replace(_, _, _)
\* s.replace(ch, rep) for a one-character ch
Replace(s, ch, rep) ==
    IF s = <<>> THEN <<>>
    ELSE (IF Head(s) = ch THEN rep ELSE <<Head(s)>>) \o Replace(Tail(s), ch, rep)

\* the passes in another order: the backslash last
ics_escape_BackslashLast(s) ==
    Replace(Replace(Replace(s, ";", <<"\\", ";">>), ",", <<"\\", ",">>), "\\", <<"\\", "\\">>)

ics_escape(s) ==
    Replace(Replace(Replace(s, "\\", <<"\\", "\\">>), ";", <<"\\", ";">>), ",", <<"\\", ",">>)

(***************************************************************************)
(* Timestamps as text: strftime and isoformat.                             *)
(***************************************************************************)
TwoDigits(n) == <<DigitChar((n \div 10) % 10), DigitChar(n % 10)>>

FourDigits(n) == TwoDigits(n \div 100) \o TwoDigits(n % 100)

\* dt_obj.strftime("%Y%m%dT%H%M%S")
Strftime(t) ==
    FourDigits(t.y) \o TwoDigits(t.m) \o TwoDigits(t.d) \o <<"T">>
        \o TwoDigits(t.h) \o TwoDigits(t.mi) \o <<"0", "0">>

\* dt_obj.isoformat(), microsecond = 0
Isoformat(t) ==
    FourDigits(t.y) \o <<"-">> \o TwoDigits(t.m) \o <<"-">> \o TwoDigits(t.d) \o <<"T">>
        \o TwoDigits(t.h) \o <<":">> \o TwoDigits(t.mi) \o <<":", "0", "0">>

\* truthiness of an optional string: None and "" are false
Truthy(x) == x.some /\ x.v # <<>>

ics_dt(dt_obj, tzid) ==
    IF Truthy(tzid) THEN <<";", "T", "Z", "I", "D", "=">> \o tzid.v \o <<":">> \o Strftime(dt_obj)
    ELSE <<":">> \o Strftime(dt_obj)

(***************************************************************************)
(* make_uid.  SHA-1 is taken to be collision-free: the hex digest is       *)
(* modelled by an injective encoding of the hashed data that, like a hex   *)
(* digest, holds no line break.  Its fixed length is not modelled.         *)
(***************************************************************************)
sha1_hexdigest(data) == Replace(Replace(data, "%", <<"%", "%">>), "\n", <<"%", "n">>)

\* a uid that leaves the end timestamp out of the hashed data
make_uid_NoEnd(ttl, start, end) ==
    sha1_hexdigest(ttl \o <<"|">> \o Isoformat(start)) \o <<"@", "m", "y", "v", "m", "k">>

make_uid(ttl, start, end) ==
    sha1_hexdigest(ttl \o <<"|">> \o Isoformat(start) \o <<"|">> \o Isoformat(end))
        \o <<"@", "m", "y", "v", "m", "k">>

(***************************************************************************)
(* build_ics.  An event is a dict: title and source are optional strings.  *)
(***************************************************************************)
Placeholder == <<"M", "y", "V", "M", "K", " ", "E", "v", "e", "n", "t">>

CalNameDefault == <<"M", "y", "V", "M", "K", " ", "E", "v", "e", "n", "t", "s">>

\* ev["title"] or "MyVMK Event"
TitleOrPlaceholder(ttl) == IF Truthy(ttl) THEN ttl.v ELSE Placeholder

RECURSIVE Join(_)
\* "\n".join(lines)
Join(lines) ==
    IF lines = <<>> THEN <<>>
    ELSE IF Len(lines) = 1 THEN lines[1]
    ELSE lines[1] \o <<"\n">> \o Join(Tail(lines))

HeaderLines(cal_name) == <<
    <<"B", "E", "G", "I", "N", ":", "V", "C", "A", "L", "E", "N", "D", "A", "R">>,
    <<"V", "E", "R", "S", "I", "O", "N", ":", "2", ".", "0">>,
    <<"P", "R", "O", "D", "I", "D", ":", "-", "/", "/", "M", "y", "V", "M", "K", " ", "S", "c", "r", "a", "p", "e", "r", "/", "/", "E", "N">>,
    <<"C", "A", "L", "S", "C", "A", "L", "E", ":", "G", "R", "E", "G", "O", "R", "I", "A", "N">>,
    <<"X", "-", "W", "R", "-", "C", "A", "L", "N", "A", "M", "E", ":">> \o ics_escape(cal_name) >>

\* the lines one iteration of the loop appends
EventLines(ev, tzid, stamp) ==
    LET ttl == TitleOrPlaceholder(ev.title)
        uid == make_uid(ttl, ev.start, ev.end)
    IN  << <<"B", "E", "G", "I", "N", ":", "V", "E", "V", "E", "N", "T">>,
           <<"D", "T", "S", "T", "A", "M", "P", ":">> \o stamp,
           <<"U", "I", "D", ":">> \o uid,
           <<"S", "U", "M", "M", "A", "R", "Y", ":">> \o ics_escape(ttl),
           <<"D", "T", "S", "T", "A", "R", "T">> \o ics_dt(ev.start, tzid),
           <<"D", "T", "E", "N", "D">> \o ics_dt(ev.end, tzid) >>
        \o (IF Truthy(ev.source)
            THEN << <<"D", "E", "S", "C", "R", "I", "P", "T", "I", "O", "N", ":">> \o ics_escape(ev.source.v) >> ELSE <<>>)
        \o << <<"E", "N", "D", ":", "V", "E", "V", "E", "N", "T">> >>

RECURSIVE AllEventLines(_, _, _)
AllEventLines(evs, tzid, stamp) ==
    IF evs = <<>> THEN <<>>
    ELSE EventLines(Head(evs), tzid, stamp) \o AllEventLines(Tail(evs), tzid, stamp)

build_ics(evs, tzid, cal_name, stamp) ==
    Join(HeaderLines(cal_name) \o AllEventLines(evs, tzid, stamp) \o << <<"E", "N", "D", ":", "V", "C", "A", "L", "E", "N", "D", "A", "R">> >>)
        \o <<"\n">>

\* the uid of each event, as the loop computes it
EventUids(evs) ==
    [i \in 1..Len(evs) |->
        make_uid(TitleOrPlaceholder(evs[i].title), evs[i].start, evs[i].end)]

(***************************************************************************)
(* The inputs of ics_escape and build_ics.                                 *)
(***************************************************************************)
EscAlphabet == {"a", "\\", ";", ",", "\n"}

RECURSIVE StringsUpTo(_, _)
\* the strings over alphabet of length at most n
StringsUpTo(alphabet, n) ==
    IF n = 0 THEN {<<>>}
    ELSE LET shorter == StringsUpTo(alphabet, n - 1)
         IN  shorter \cup {<<c>> \o s : c \in alphabet, s \in {t \in shorter : Len(t) = n - 1}}

\* the title of the specification's scenario: A, B; C\D
ScenarioTitle == <<"A", ",", " ", "B", ";", " ", "C", "\\", "D">>

EscInputs == StringsUpTo(EscAlphabet, MaxLen) \cup {ScenarioTitle}

Dt(y, m, d, h, mi) == [y |-> y, m |-> m, d |-> d, h |-> h, mi |-> mi]

EventTitles == {SomeText(<<>>), SomeText(Placeholder), SomeText(<<"T">>),
                SomeText(<<"a", ";", "|">>),
                SomeText(<<"\n">> \o <<"B", "E", "G", "I", "N", ":", "V", "E", "V", "E", "N", "T">>)}

EventSpans == {<<Dt(2025, 10, 15, 18, 0), Dt(2025, 10, 15, 19, 0)>>,
               <<Dt(2025, 10, 15, 18, 0), Dt(2025, 10, 15, 19, 30)>>,
               <<Dt(2025, 10, 15, 23, 30), Dt(2025, 10, 16, 0, 30)>>}

EventSources == {NoText, SomeText(<<"h", "t", "t", "p", ":", "/", "/", "u">>)}

Event(ttl, start, end, source) ==
    [title |-> ttl, start |-> start, end |-> end, source |-> source]

EventInputs == {Event(t, sp[1], sp[2], src) :
                  t \in EventTitles, sp \in EventSpans, src \in EventSources}

RECURSIVE ListsUpTo(_, _)
ListsUpTo(S, n) ==
    IF n = 0 THEN {<<>>}
    ELSE LET shorter == ListsUpTo(S, n - 1)
         IN  shorter \cup {<<x>> \o l : x \in S, l \in {t \in shorter : Len(t) = n - 1}}

TzInputs == {NoText, SomeText(<<"A", "m", "e", "r", "i", "c", "a", "/", "N", "e", "w", "_", "Y", "o", "r", "k">>)}

\* dt.datetime.now(dt.timezone.utc).strftime("%Y%m%dT%H%M%SZ")
NowInputs == {<<"2", "0", "2", "6", "1", "1", "0", "6", "T", "0", "1", "4", "5", "0", "0", "Z">>, <<"2", "0", "2", "6", "1", "1", "0", "7", "T", "1", "2", "0", "0", "0", "0", "Z">>}

(***************************************************************************)
(* The inputs of parse_time_range.                                         *)
(***************************************************************************)
HourTexts == {<<"6">>, <<"7">>, <<"1", "1">>, <<"1", "2">>, <<"0", "6">>,
              <<"0">>, <<"1", "3">>}
MinuteTexts == {<<"0", "0">>, <<"3", "0">>, <<"7", "5">>}
MeridiemTexts == {<<"A", "M">>, <<"P", "M">>, <<"p", "m">>}
GapTexts == {<<>>, <<" ">>, <<"\t">>}

RECURSIVE Pad(_)
Pad(n) == IF n = 0 THEN <<>> ELSE <<" ">> \o Pad(n - 1)

\* the first time of a range: every hour, minute, gap and meridiem
FirstTimes == {h \o <<":">> \o mi \o g \o ap :
                 h \in HourTexts, mi \in MinuteTexts, g \in GapTexts, ap \in MeridiemTexts}

\* the second time of a range
SecondTimes == {h \o <<":">> \o mi \o <<" ">> \o ap :
                 h \in {<<"7">>, <<"1", "2">>, <<"6">>, <<"1", "3">>},
                 mi \in {<<"0", "0">>, <<"3", "0">>},
                 ap \in {<<"A", "M">>, <<"P", "M">>}}

RangeTexts == {Pad(a) \o t1 \o Pad(b) \o <<"-">> \o Pad(b) \o t2 \o Pad(a) :
                 t1 \in FirstTimes, t2 \in SecondTimes, a \in {0, MaxPad}, b \in 0..MaxPad}

SixPM == <<"6", ":", "0", "0", " ", "P", "M">>
SevenPM == <<"7", ":", "0", "0", " ", "P", "M">>

\* texts that are not a time range
FreeTexts == {
    <<>>,
    <<" ">>,
    SixPM,
    SixPM \o <<" ", "-">>,
    SixPM \o <<" ", "-", " ">> \o <<"7", ":", "0", "0">>,
    <<"6", ":", "0", "0">> \o <<" ", "-", " ">> \o SevenPM,
    SixPM \o <<" ", "t", "o", " ">> \o SevenPM,
    SixPM \o <<" ", "-", " ">> \o SevenPM \o <<" ", "x">>,
    <<"x", " ">> \o SixPM \o <<" ", "-", " ">> \o SevenPM,
    <<"6", ":", "0", " ", "P", "M">> \o <<" ", "-", " ">> \o SevenPM,
    <<"6", ":", "0", "0", "0", " ", "P", "M">> \o <<" ", "-", " ">> \o SevenPM,
    <<"1", "2", "3", ":", "0", "0", " ", "P", "M">> \o <<" ", "-", " ">> \o SevenPM,
    <<"6", ".", "0", "0", " ", "P", "M">> \o <<" ", "-", " ">> \o SevenPM,
    <<"6", ":", "0", "0", " ", "X", "M">> \o <<" ", "-", " ">> \o SevenPM,
    <<"6", ":", "0", "0", " ", "P">> \o <<" ", "-", " ">> \o SevenPM,
    <<"6", " ", ":", "0", "0", " ", "P", "M">> \o <<" ", "-", " ">> \o SevenPM,
    SixPM \o <<" ", "-", "-", " ">> \o SevenPM,
    <<"A", "l", "l", " ", "d", "a", "y">>
}

TimeTexts == RangeTexts \cup FreeTexts

Date(y, m, d) == [y |-> y, m |-> m, d |-> d]

BaseDates == {Date(2025, 10, 15), Date(2025, 10, 31), Date(2024, 2, 28),
              Date(2024, 2, 29), Date(2025, 12, 31), Date(9999, 12, 31)}

NoResult == [kind |-> "none", start |-> <<>>, end |-> <<>>]

(***************************************************************************)
(* The parsed document (BeautifulSoup).  A document is the sequence of its *)
(* elements in document order; an element has a tag name, the list of its  *)
(* class tokens (empty: no class attribute), the text it holds directly,   *)
(* and the index of its parent (0: the document itself).                   *)
(***************************************************************************)
Node(tag, cls, text, parent) == [tag |-> tag, cls |-> cls, text |-> text, parent |-> parent]

RECURSIVE IsInside(_, _, _)
\* element n is a descendant of element a (of the document when a = 0)
IsInside(soup, n, a) ==
    IF a = 0 THEN TRUE
    ELSE IF soup[n].parent = 0 THEN FALSE
    ELSE soup[n].parent = a \/ IsInside(soup, soup[n].parent, a)

\* a set of indices as a list in document order
SortedSeq(S) ==
    [i \in 1..Cardinality(S) |->
        CHOOSE x \in S : Cardinality({y \in S : y < x}) = i - 1]

HasToken(tokens, t) == \E i \in 1..Len(tokens) : tokens[i] = t

\* the functions the source passes as class_ (lines 166, 173, 188, 194, 199,
\* 203), each on c.split(), the list of the tokens of the string it is given
IsVisibleDayClass(c) == HasToken(c, "day") /\ ~HasToken(c, "hidden")
IsNumberClass(c) == HasToken(c, "number")
IsEventLiClass(c) == HasToken(c, "event-li")
IsEventDetailClass(c) == HasToken(c, "event") /\ HasToken(c, "day-targetable")
IsEventTitleClass(c) == HasToken(c, "event-title")
IsEventTimeClass(c) == HasToken(c, "event-time")

\* the function of the filter named f
ClassFilter(f, c) ==
    CASE f = "day" -> IsVisibleDayClass(c)
      [] f = "number" -> IsNumberClass(c)
      [] f = "event-li" -> IsEventLiClass(c)
      [] f = "event" -> IsEventDetailClass(c)
      [] f = "event-title" -> IsEventTitleClass(c)
      [] f = "event-time" -> IsEventTimeClass(c)

\* how find/find_all match a function against the multi-valued class
\* attribute: the function is tried on each class token by itself and then
\* on the whole attribute value; with no class attribute it is given None.
ClassMatches(f, cls) ==
    /\ cls # <<>>
    /\ \/ \E i \in 1..Len(cls) : ClassFilter(f, <<cls[i]>>)
       \/ ClassFilter(f, cls)

\* find_all(tags, class_=f) below element a, in document order
FindAll(soup, a, tags, f) ==
    SortedSeq({n \in 1..Len(soup) :
                 /\ n # a
                 /\ IsInside(soup, n, a)
                 /\ soup[n].tag \in tags
                 /\ ClassMatches(f, soup[n].cls)})

\* find(tag, class_=f): the first match, 0 for None
Find(soup, a, tags, f) ==
    LET all == FindAll(soup, a, tags, f) IN IF all = <<>> THEN 0 ELSE all[1]

RECURSIVE Strip(_)
\* str.strip()
Strip(s) ==
    IF s = <<>> THEN <<>>
    ELSE IF Head(s) \in Whitespace THEN Strip(Tail(s))
    ELSE IF s[Len(s)] \in Whitespace THEN Strip(SubSeq(s, 1, Len(s) - 1))
    ELSE s

RECURSIVE ConcatStripped(_, _)
ConcatStripped(soup, nodes) ==
    IF nodes = <<>> THEN <<>>
    ELSE Strip(soup[Head(nodes)].text) \o ConcatStripped(soup, Tail(nodes))

\* x.get_text(strip=True): the stripped strings of x and of what it holds
GetText(soup, n) ==
    ConcatStripped(soup, SortedSeq({k \in 1..Len(soup) : k = n \/ IsInside(soup, k, n)}))

\* safe_text(x); x = 0 is None
safe_text(soup, x) == IF x = 0 THEN <<>> ELSE Strip(GetText(soup, x))

(***************************************************************************)
(* parse_header_month_year.                                                *)
(***************************************************************************)
MONTHS == <<
    [name |-> <<"j", "a", "n", "u", "a", "r", "y">>, num |-> 1], [name |-> <<"f", "e", "b", "r", "u", "a", "r", "y">>, num |-> 2],
    [name |-> <<"m", "a", "r", "c", "h">>, num |-> 3], [name |-> <<"a", "p", "r", "i", "l">>, num |-> 4],
    [name |-> <<"m", "a", "y">>, num |-> 5], [name |-> <<"j", "u", "n", "e">>, num |-> 6],
    [name |-> <<"j", "u", "l", "y">>, num |-> 7], [name |-> <<"a", "u", "g", "u", "s", "t">>, num |-> 8],
    [name |-> <<"s", "e", "p", "t", "e", "m", "b", "e", "r">>, num |-> 9], [name |-> <<"o", "c", "t", "o", "b", "e", "r">>, num |-> 10],
    [name |-> <<"n", "o", "v", "e", "m", "b", "e", "r">>, num |-> 11], [name |-> <<"d", "e", "c", "e", "m", "b", "e", "r">>, num |-> 12] >>

\* str.lower() on the letters a header is made of
Lower(c) ==
    CASE c = "A" -> "a" [] c = "B" -> "b" [] c = "C" -> "c" [] c = "D" -> "d"
      [] c = "E" -> "e" [] c = "F" -> "f" [] c = "G" -> "g" [] c = "H" -> "h"
      [] c = "I" -> "i" [] c = "J" -> "j" [] c = "L" -> "l" [] c = "M" -> "m"
      [] c = "N" -> "n" [] c = "O" -> "o" [] c = "P" -> "p" [] c = "R" -> "r"
      [] c = "S" -> "s" [] c = "T" -> "t" [] c = "U" -> "u" [] c = "V" -> "v"
      [] c = "Y" -> "y"
      [] OTHER -> c

LowerStr(s) == [i \in 1..Len(s) |-> Lower(s[i])]

\* (january|...|december)\s+(\d{4}) matches at position i with month k
MonthYearAt(text, i, k) ==
    LET name == MONTHS[k].name
        ws == i + Len(name)
        y == SkipWs(text, ws)
    IN  /\ i + Len(name) - 1 <= Len(text)
        /\ SubSeq(text, i, i + Len(name) - 1) = name
        /\ y > ws
        /\ \A j \in 0..3 : CharAt(text, y + j) \in Digits

YearAt(text, i, k) ==
    LET y == SkipWs(text, i + Len(MONTHS[k].name))
    IN  1000 * DigitVal(text[y]) + 100 * DigitVal(text[y + 1])
            + 10 * DigitVal(text[y + 2]) + DigitVal(text[y + 3])

\* re.search: the leftmost match; (year, month), None being 0
SearchMonthYear(text) ==
    LET hits == {p \in (1..Len(text)) \X (1..12) : MonthYearAt(text, p[1], p[2])}
    IN  IF hits = {} THEN [found |-> FALSE, year |-> 0, month |-> 0]
        ELSE LET p == CHOOSE q \in hits : \A r \in hits :
                          q[1] < r[1] \/ (q[1] = r[1] /\ q[2] <= r[2])
             IN  [found |-> TRUE, year |-> YearAt(text, p[1], p[2]), month |-> MONTHS[p[2]].num]

\* the nodes searched, in priority order: the header, then every h1 and h2
HeaderCandidates(soup) ==
    LET headers == SortedSeq({n \in 1..Len(soup) : HasToken(soup[n].cls, "header")})
        headings == SortedSeq({n \in 1..Len(soup) : soup[n].tag \in {"h1", "h2"}})
    IN  (IF headers = <<>> THEN <<>> ELSE <<headers[1]>>) \o headings

RECURSIVE FirstMonthYear(_, _)
FirstMonthYear(soup, candidates) ==
    IF candidates = <<>> THEN [found |-> FALSE, year |-> 0, month |-> 0]
    ELSE LET m == SearchMonthYear(LowerStr(safe_text(soup, Head(candidates))))
         IN  IF m.found THEN m ELSE FirstMonthYear(soup, Tail(candidates))

parse_header_month_year(soup) == FirstMonthYear(soup, HeaderCandidates(soup))

(***************************************************************************)
(* scrape_events: the month and year, and the day containers.              *)
(* An optional integer is 0 for None: the source tests these values for    *)
(* truth only, and 0 is as false as None.                                  *)
(***************************************************************************)
\* lines 154-161: the overrides, then the fallback to today
MonthYearContext(soup, fyear, fmonth, today) ==
    LET parsed == parse_header_month_year(soup)
        y == IF fyear # 0 THEN fyear ELSE parsed.year
        m == IF fmonth # 0 THEN fmonth ELSE parsed.month
    IN  IF y # 0 /\ m # 0 THEN [year |-> y, month |-> m]
        ELSE [year |-> today.y, month |-> today.m]

\* line 166
DayContainers(soup) == FindAll(soup, 0, {"div"}, "day")

\* str.isdigit(), on the characters a label is made of
IsDigitStr(s) == s # <<>> /\ \A k \in 1..Len(s) : s[k] \in Digits

RECURSIVE StripZeros(_)
StripZeros(s) == IF Len(s) > 1 /\ Head(s) = "0" THEN StripZeros(Tail(s)) ELSE s

RECURSIVE IntOfDigits(_)
IntOfDigits(s) ==
    IF s = <<>> THEN 0 ELSE 10 * IntOfDigits(SubSeq(s, 1, Len(s) - 1)) + DigitVal(s[Len(s)])

\* the longest digit string that is surely a C int
CIntDigits == 9

\* int(day_str) fits the C int that dt.date takes its arguments as
\* (2147483647 at most); a longer argument raises OverflowError
FitsCInt(s) ==
    LET d == StripZeros(s)
    IN  \/ Len(d) <= CIntDigits
        \/ /\ Len(d) = CIntDigits + 1
           /\ LET hi == IntOfDigits(SubSeq(d, 1, CIntDigits))
                  lo == DigitVal(d[CIntDigits + 1])
              IN  hi < 214748364 \/ (hi = 214748364 /\ lo <= 7)

\* the day of the month, or 0 for every number that is no day of any month
DayNumber(s) ==
    LET d == StripZeros(s) IN IF Len(d) <= 2 THEN IntOfDigits(d) ELSE 0

\* lines 172-188: what one day container comes to: it is skipped, dt.date
\* raises, or it gives the base date and the event entries of the day
DayLookup(soup, day_div, y, mo) ==
    LET num_tag == Find(soup, day_div, {"p"}, "number")
        day_str == safe_text(soup, num_tag)
        none == [kind |-> "skip", date |-> Date(0, 0, 0), entries |-> <<>>]
    IN  IF num_tag = 0 THEN none
        ELSE IF ~IsDigitStr(day_str) THEN none
        ELSE IF ~FitsCInt(day_str) THEN [none EXCEPT !.kind = "OverflowError"]
        ELSE IF ~ValidDate(y, mo, DayNumber(day_str)) THEN none
        ELSE [kind |-> "day",
              date |-> Date(y, mo, DayNumber(day_str)),
              entries |-> FindAll(soup, day_div, {"li"}, "event-li")]

\* lines 194-196: the detail wrapper of an entry, or the entry itself
EntryContainer(soup, li) ==
    LET detail == Find(soup, li, {"div"}, "event")
    IN  IF detail = 0 THEN li ELSE detail

\* lines 199-200
EntryTitle(soup, li) ==
    safe_text(soup, Find(soup, EntryContainer(soup, li), {"p"}, "event-title"))

\* lines 203-204
EntryTime(soup, li) ==
    safe_text(soup, Find(soup, EntryContainer(soup, li), {"p"}, "event-time"))

\* lines 210-215: the dict appended to events
ScrapedEvent(entry_title, start, end, url) ==
    Event(SomeText(IF entry_title = <<>> THEN Placeholder ELSE entry_title),
          start, end, SomeText(url))

(***************************************************************************)
(* The pages served.  A page holds an optional header, a day cell A of     *)
(* every shape, and copies of a well-formed visible day cell B, beside A,  *)
(* around A or inside A.                                                   *)
(***************************************************************************)
\* how many copies of the day cell B follow the day cell A
MaxSiblings == 1

DayClass(hidden) == IF hidden THEN <<"day", "hidden">> ELSE <<"day">>

\* the elements of a day cell placed after `off` elements, below `parent`;
\* its entry has a detail wrapper when `wrapped`
CellNodes(cell, parent, off) ==
    LET div == off + 1
        label == IF cell.label.some
                 THEN <<Node("p", <<"number">>, cell.label.v, div)>> ELSE <<>>
        li == div + Len(label) + 1
        wrap == IF cell.wrapped
                THEN <<Node("div", <<"event", "day-targetable">>, <<>>, li)>> ELSE <<>>
        holder == li + Len(wrap)
    IN  <<Node("div", DayClass(cell.hidden), <<>>, parent)>> \o label
        \o <<Node("li", <<"event-li">>, <<>>, div)>> \o wrap
        \o <<Node("p", <<"event-title">>, cell.title, holder),
             Node("p", <<"event-time">>, cell.time, holder)>>

Cell(hidden, label, ttl, time, wrapped) ==
    [hidden |-> hidden, label |-> label, title |-> ttl, time |-> time, wrapped |-> wrapped]

TitleB == <<"B">>

CellB == Cell(FALSE, SomeText(<<"1", "5">>), TitleB, SixPM \o <<" ", "-", " ">> \o SevenPM, FALSE)

HeaderNodes(header) ==
    IF header = "parsed" THEN <<Node("div", <<"header">>, <<" ", "O", "c", "t", "o", "b", "e", "r", " ", "2", "0", "2", "5", " ">>, 0)>>
    ELSE IF header = "unparsed" THEN <<Node("h1", <<>>, <<"E", "v", "e", "n", "t", "s", " ", "C", "a", "l", "e", "n", "d", "a", "r">>, 0)>>
    ELSE <<>>

RECURSIVE Siblings(_, _)
\* k copies of the day cell B, after `off` elements
Siblings(k, off) ==
    IF k = 0 THEN <<>>
    ELSE LET first == CellNodes(CellB, 0, off)
         IN  first \o Siblings(k - 1, off + Len(first))

Page(sc) ==
    LET head == HeaderNodes(sc.header)
        h == Len(head)
    IN  IF sc.layout = "A in B"
        THEN LET b == CellNodes(CellB, 0, h)
             IN  head \o b \o CellNodes(sc.a, h + 1, h + Len(b))
        ELSE IF sc.layout = "B in A"
        THEN LET a == CellNodes(sc.a, 0, h)
             IN  head \o a \o CellNodes(CellB, h + 1, h + Len(a))
        ELSE LET a == CellNodes(sc.a, 0, h)
             IN  head \o a \o Siblings(sc.k, h + Len(a))

Labels == {NoText, SomeText(<<"3", "1">>), SomeText(<<" ", "7", "\n">>), SomeText(<<"x">>),
           SomeText(<<"0">>), SomeText(<<"9", "9", "9", "9", "9", "9", "9", "9", "9", "9", "9">>)}

TitlesA == {<<>>, <<"T">>}

TimesA == {<<>>, SixPM \o <<" ", "-", " ">> \o SevenPM,
           <<"1", "3", ":", "0", "0", " ", "P", "M", " ", "-", " ", "2", ":", "0", "0", " ", "P", "M">>}

CellsA == {Cell(hid, l, t, ti, TRUE) : hid \in BOOLEAN, l \in Labels, t \in TitlesA, ti \in TimesA}

Scene(header, a, layout, k) == [header |-> header, a |-> a, layout |-> layout, k |-> k]

Scenes ==
    {Scene(hd, a, "beside", k) : hd \in {"none", "parsed", "unparsed"}, a \in CellsA,
                                 k \in 0..MaxSiblings}
    \cup {Scene(hd, a, lay, 1) : hd \in {"none", "parsed", "unparsed"}, a \in CellsA,
                                 lay \in {"A in B", "B in A"}}

Url == <<"h", "t", "t", "p", ":", "/", "/", "u">>

\* args.tz, at its default
TzDefault == SomeText(<<"A", "m", "e", "r", "i", "c", "a", "/", "N", "e", "w", "_", "Y", "o", "r", "k">>)

\* dt.date.today()
Today == Date(2026, 11, 6)

NoFile == <<"(", "n", "o", " ", "f", "i", "l", "e", ")">>

NoPrior == [ran |-> FALSE, exit_status |-> 0, events |-> <<>>, out_file |-> <<>>]

IdleRun ==
    /\ scene = Scene("none", Cell(FALSE, NoText, <<>>, <<>>, TRUE), "beside", 0)
    /\ forced_year = 0 /\ forced_month = 0 /\ verbose = FALSE
    /\ render_ok = TRUE /\ debug_ok = TRUE /\ out_ok = TRUE /\ now = <<>>
    /\ pc = "idle" /\ html = <<>> /\ year = 0 /\ month = 0 /\ all_day_divs = <<>>
    /\ day_i = 0 /\ base_date = Date(0, 0, 0) /\ li_nodes = <<>> /\ li_i = 0
    /\ title = <<>> /\ time_txt = <<>>
    /\ events = <<>> /\ ics_text = <<>> /\ out_file = NoFile
    /\ debug_file = NoFile /\ exit_status = 0 /\ prior = NoPrior

IdleTime == tText = NoText /\ tBase = Date(2025, 10, 15) /\ tRes = NoResult /\ tPc = "idle"
IdleEsc == eIn = <<>> /\ eOut = <<>> /\ ePc = "idle"
IdleIcs == bEvents = <<>> /\ bTz = NoText /\ bNow = <<>> /\ bUids = <<>> /\ bDoc = <<>> /\ bPc = "idle"

(***************************************************************************)
(* SpecTime: one call of parse_time_range.                                 *)
(***************************************************************************)
InitTime ==
    /\ IdleEsc /\ IdleIcs /\ IdleRun
    /\ tText \in {NoText} \cup {SomeText(s) : s \in TimeTexts}
    /\ tBase \in BaseDates
    /\ tRes = NoResult
    /\ tPc = "call"

CallParseTimeRange ==
    /\ tPc = "call"
    /\ tRes' = parse_time_range(tText, tBase)
    /\ tPc' = "done"
    /\ UNCHANGED <<tText, tBase, evars, bvars, rvars>>

NextTime == CallParseTimeRange

SpecTime == InitTime /\ [][NextTime]_vars

(***************************************************************************)
(* SpecEsc: one call of ics_escape.                                        *)
(***************************************************************************)
InitEsc ==
    /\ IdleTime /\ IdleIcs /\ IdleRun
    /\ eIn \in EscInputs
    /\ eOut = <<>>
    /\ ePc = "call"

CallIcsEscape ==
    /\ ePc = "call"
    /\ eOut' = ics_escape(eIn)
    /\ ePc' = "done"
    /\ UNCHANGED <<eIn, tvars, bvars, rvars>>

NextEsc == CallIcsEscape

SpecEsc == InitEsc /\ [][NextEsc]_vars

(***************************************************************************)
(* SpecIcs: one call of build_ics.                                         *)
(***************************************************************************)
InitIcs ==
    /\ IdleTime /\ IdleEsc /\ IdleRun
    /\ bEvents \in ListsUpTo(EventInputs, MaxEvents)
    /\ bTz \in TzInputs
    /\ bNow \in NowInputs
    /\ bUids = <<>>
    /\ bDoc = <<>>
    /\ bPc = "call"

CallBuildIcs ==
    /\ bPc = "call"
    /\ bUids' = EventUids(bEvents)
    /\ bDoc' = build_ics(bEvents, bTz, CalNameDefault, bNow)
    /\ bPc' = "done"
    /\ UNCHANGED <<bEvents, bTz, bNow, tvars, evars, rvars>>

NextIcs == CallBuildIcs

SpecIcs == InitIcs /\ [][NextIcs]_vars

(***************************************************************************)
(* Spec: one run of main().  The environment is what the page serves       *)
(* (scene), whether rendering succeeds (render_ok), whether the working    *)
(* directory and the output path can be written (debug_ok, out_ok), and    *)
(* the clock (today, now).                                                 *)
(***************************************************************************)
\* the state main() starts in
Started ==
    /\ pc = "start" /\ html = <<>> /\ year = 0 /\ month = 0 /\ all_day_divs = <<>>
    /\ day_i = 0 /\ base_date = Date(0, 0, 0) /\ li_nodes = <<>> /\ li_i = 0
    /\ title = <<>> /\ time_txt = <<>>
    /\ events = <<>> /\ ics_text = <<>> /\ exit_status = 0

InitRun ==
    /\ IdleTime /\ IdleEsc /\ IdleIcs
    /\ scene \in Scenes
    /\ forced_year \in {0, 2024}
    /\ forced_month \in {0, 4}
    /\ verbose \in BOOLEAN
    /\ render_ok \in BOOLEAN /\ debug_ok \in BOOLEAN /\ out_ok \in BOOLEAN
    /\ now = <<"2", "0", "2", "6", "1", "1", "0", "6", "T", "0", "1", "4", "5", "0", "0", "Z">>
    /\ Started
    /\ out_file = NoFile /\ debug_file = NoFile
    /\ prior = NoPrior

inputs == <<scene, forced_year, forced_month, render_ok, debug_ok, out_ok>>

\* the locals of the loops of scrape_events
locals == <<base_date, li_nodes, li_i, title, time_txt>>

others == <<prior, tvars, evars, bvars>>

\* lines 239-241: the exception reaches main(), which prints it and exits 1
ExitWithError ==
    /\ pc' = "exit"
    /\ exit_status' = 1

\* line 143: load_html returns the rendered page, or raises
LoadHtml ==
    /\ pc = "start"
    /\ IF render_ok
       THEN /\ html' = Page(scene)
            /\ pc' = "loaded"
            /\ UNCHANGED exit_status
       ELSE /\ ExitWithError
            /\ UNCHANGED html
    /\ UNCHANGED <<inputs, verbose, now, year, month, all_day_divs, day_i, locals, events,
                   ics_text, out_file, debug_file, others>>

\* lines 146-149: in verbose mode the page is written to calendar_debug.html
SaveDebugHtml ==
    /\ pc = "loaded"
    /\ IF verbose /\ ~debug_ok
       THEN /\ ExitWithError
            /\ UNCHANGED debug_file
       ELSE /\ debug_file' = IF verbose THEN html ELSE debug_file
            /\ pc' = "soup"
            /\ UNCHANGED exit_status
    /\ UNCHANGED <<inputs, verbose, now, html, year, month, all_day_divs, day_i, locals,
                   events, ics_text, out_file, others>>

\* lines 151-169: the month and year, the day containers, the empty list
DetermineMonthYear ==
    /\ pc = "soup"
    /\ LET ctx == MonthYearContext(html, forced_year, forced_month, Today)
       IN  year' = ctx.year /\ month' = ctx.month
    /\ all_day_divs' = DayContainers(html)
    /\ day_i' = 1
    /\ events' = <<>>
    /\ pc' = "days"
    /\ UNCHANGED <<inputs, verbose, now, html, locals, ics_text, out_file, debug_file,
                   exit_status, others>>

\* lines 171-190: the next day container: its number, its date, its entries
EnterDay ==
    /\ pc = "days"
    /\ day_i <= Len(all_day_divs)
    /\ LET d == DayLookup(html, all_day_divs[day_i], year, month)
       IN  IF d.kind = "OverflowError"
           THEN /\ ExitWithError
                /\ UNCHANGED <<day_i, base_date, li_nodes, li_i>>
           ELSE IF d.kind = "skip"
           THEN /\ day_i' = day_i + 1
                /\ UNCHANGED <<pc, exit_status, base_date, li_nodes, li_i>>
           ELSE /\ base_date' = d.date
                /\ li_nodes' = d.entries
                /\ li_i' = 1
                /\ pc' = "entries"
                /\ UNCHANGED <<day_i, exit_status>>
    /\ UNCHANGED <<inputs, verbose, now, html, year, month, all_day_divs, title, time_txt,
                   events, ics_text, out_file, debug_file, others>>

\* lines 192-207: the next entry: its title and time text; a noise entry is
\* skipped
ExtractEntry ==
    /\ pc = "entries"
    /\ li_i <= Len(li_nodes)
    /\ title' = EntryTitle(html, li_nodes[li_i])
    /\ time_txt' = EntryTime(html, li_nodes[li_i])
    /\ IF title' = <<>> /\ time_txt' = <<>>
       THEN li_i' = li_i + 1 /\ UNCHANGED pc
       ELSE pc' = "entry" /\ UNCHANGED li_i
    /\ UNCHANGED <<inputs, verbose, now, html, year, month, all_day_divs, day_i, base_date,
                   li_nodes, events, ics_text, out_file, debug_file, exit_status, others>>

\* lines 209-215: the times of the entry; the event is appended, or
\* parse_time_range raises
AppendEvent ==
    /\ pc = "entry"
    /\ LET r == parse_time_range(SomeText(time_txt), base_date)
       IN  IF r.kind # "return"
           THEN /\ ExitWithError
                /\ UNCHANGED <<events, li_i>>
           ELSE /\ events' = Append(events, ScrapedEvent(title, r.start, r.end, Url))
                /\ li_i' = li_i + 1
                /\ pc' = "entries"
                /\ UNCHANGED exit_status
    /\ UNCHANGED <<inputs, verbose, now, html, year, month, all_day_divs, day_i, base_date,
                   li_nodes, title, time_txt, ics_text, out_file, debug_file, others>>

\* line 192, the entries exhausted: on to the next day container
LeaveDay ==
    /\ pc = "entries"
    /\ li_i > Len(li_nodes)
    /\ day_i' = day_i + 1
    /\ pc' = "days"
    /\ UNCHANGED <<inputs, verbose, now, html, year, month, all_day_divs, locals, events,
                   ics_text, out_file, debug_file, exit_status, others>>

\* lines 219 and 235: scrape_events returns and build_ics makes the feed
BuildFeed ==
    /\ pc = "days"
    /\ day_i > Len(all_day_divs)
    /\ ics_text' = build_ics(events, TzDefault, CalNameDefault, now)
    /\ pc' = "built"
    /\ UNCHANGED <<inputs, verbose, now, html, year, month, all_day_divs, day_i, locals,
                   events, out_file, debug_file, exit_status, others>>

\* lines 236-238: the feed is written to args.out, or the write raises
WriteFeed ==
    /\ pc = "built"
    /\ IF out_ok
       THEN /\ out_file' = ics_text
            /\ pc' = "exit"
            /\ exit_status' = 0
       ELSE /\ ExitWithError
            /\ UNCHANGED out_file
    /\ UNCHANGED <<inputs, verbose, now, html, year, month, all_day_divs, day_i, locals,
                   events, ics_text, debug_file, others>>

Next ==
    \/ LoadHtml \/ SaveDebugHtml \/ DetermineMonthYear
    \/ EnterDay \/ ExtractEntry \/ AppendEvent \/ LeaveDay
    \/ BuildFeed \/ WriteFeed

Spec == InitRun /\ [][Next]_vars

(***************************************************************************)
(* SpecVerbose: the program is run without --verbose and then, on the same *)
(* page, arguments and environment, with --verbose.                        *)
(***************************************************************************)
InitVerbose == InitRun /\ verbose = FALSE

\* the second run starts; what the first run left is kept for comparison
RunAgainVerbose ==
    /\ pc = "exit"
    /\ ~prior.ran
    /\ prior' = [ran |-> TRUE, exit_status |-> exit_status, events |-> events,
                 out_file |-> out_file]
    /\ verbose' = TRUE
    /\ now' \in NowInputs
    /\ pc' = "start" /\ html' = <<>> /\ year' = 0 /\ month' = 0 /\ all_day_divs' = <<>>
    /\ day_i' = 0 /\ base_date' = Date(0, 0, 0) /\ li_nodes' = <<>> /\ li_i' = 0
    /\ title' = <<>> /\ time_txt' = <<>>
    /\ events' = <<>> /\ ics_text' = <<>> /\ exit_status' = 0
    /\ UNCHANGED <<inputs, out_file, debug_file, tvars, evars, bvars>>

NextVerbose == Next \/ RunAgainVerbose

SpecVerbose == InitVerbose /\ [][NextVerbose]_vars

(***************************************************************************)
(* The time-range pattern as the specification words it, stated            *)
(* declaratively (by the existence of a decomposition of the text) and     *)
(* not by the scanner above.                                               *)
(***************************************************************************)
AllWs(s) == \A k \in 1..Len(s) : s[k] \in Whitespace

\* H:MM AM/PM: 1-2 hour digits, exactly 2 minute digits, optional whitespace,
\* a meridiem in either case
PatTime(t) ==
    \E n \in {1, 2} :
        /\ Len(t) >= n + 5
        /\ \A k \in 1..n : t[k] \in Digits
        /\ t[n + 1] = ":"
        /\ t[n + 2] \in Digits /\ t[n + 3] \in Digits
        /\ \A k \in (n + 4)..(Len(t) - 2) : t[k] \in Whitespace
        /\ t[Len(t) - 1] \in {"A", "P", "a", "p"}
        /\ t[Len(t)] \in {"M", "m"}

\* a time with optional whitespace on both sides
PatPadded(u) ==
    \E a \in 1..Len(u) : \E b \in a..Len(u) :
        /\ AllWs(SubSeq(u, 1, a - 1))
        /\ PatTime(SubSeq(u, a, b))
        /\ AllWs(SubSeq(u, b + 1, Len(u)))

PatRange(s) ==
    \E d \in {k \in 1..Len(s) : s[k] = "-"} :
        /\ PatPadded(SubSeq(s, 1, d - 1))
        /\ PatPadded(SubSeq(s, d + 1, Len(s)))

\* C1: for every base date and every time text matching the pattern
\* H:MM AM/PM - H:MM AM/PM, parse_time_range returns (start, end) with
\* start < end, start on the base date and end on the base date or the day
\* after it.
C1_EveryRangeTextParsed ==
    (tPc = "done" /\ PatRange(OrEmpty(tText))) =>
        /\ tRes.kind = "return"
        /\ DtLess(tRes.start, tRes.end)
        /\ DateOf(tRes.start) = tBase
        /\ DateOf(tRes.end) \in {tBase, DateOf(PlusOneDay(tRes.start))}

\* C6: for every base date and every time text that does not match the
\* pattern (absent, empty, a single time, any other free text),
\* parse_time_range returns exactly 00:00 and 23:59 of the base date.
C6_AllDayFallback ==
    (tPc = "done" /\ ~PatRange(OrEmpty(tText))) =>
        tRes = Returned(Combine(tBase, 0, 0), Combine(tBase, 23, 59))

\* C6's case: a single time with no range was parsed into the all-day span
C6_Witness ==
    /\ tPc = "done"
    /\ tText = SomeText(SixPM)
    /\ tBase = Date(2025, 12, 31)
    /\ tRes.kind = "return" /\ tRes.end.h = 23 /\ tRes.end.d = 31

(***************************************************************************)
(* Claims about ics_escape (SpecEsc).                                      *)
(***************************************************************************)
\* what the escaping rule makes of one character
EscapedChar(c) ==
    IF c = "\\" THEN <<"\\", "\\">>
    ELSE IF c = ";" THEN <<"\\", ";">>
    ELSE IF c = "," THEN <<"\\", ",">>
    ELSE <<c>>

RECURSIVE EscapedCharwise(_)
EscapedCharwise(s) ==
    IF s = <<>> THEN <<>> ELSE EscapedChar(Head(s)) \o EscapedCharwise(Tail(s))

RECURSIVE Unescaped(_)
\* reading an escaped text back: a backslash stands for the character after it
Unescaped(s) ==
    IF s = <<>> THEN <<>>
    ELSE IF Head(s) = "\\" /\ Len(s) >= 2 THEN <<s[2]>> \o Unescaped(SubSeq(s, 3, Len(s)))
    ELSE <<Head(s)>> \o Unescaped(Tail(s))

\* A\, B\; C\\D
ScenarioSummary == <<"A", "\\", ",", " ", "B", "\\", ";", " ", "C", "\\", "\\", "D">>

\* C9: for every string s, ics_escape(s) is s with each backslash doubled, each
\* semicolon and each comma preceded by one backslash and every other
\* character unchanged; no inserted backslash is escaped again, so that
\* unescaping the result gives s back; A, B; C\D becomes A\, B\; C\\D.
C9_EscapeCharwise ==
    ePc = "done" =>
        /\ eOut = EscapedCharwise(eIn)
        /\ Unescaped(eOut) = eIn
        /\ (eIn = ScenarioTitle => eOut = ScenarioSummary)

\* C9's case: the scenario title was escaped
C9_Witness == ePc = "done" /\ eIn = ScenarioTitle /\ eOut = ScenarioSummary

(***************************************************************************)
(* Claims about build_ics (SpecIcs).                                       *)
(***************************************************************************)
SameSpan(a, b) == a.start = b.start /\ a.end = b.end

\* C7 as stated: two events given to build_ics with identical title, start
\* and end get the same UID, and two events that differ in any one of title,
\* start or end get different UIDs.
C7_UidOfGivenTitle ==
    bPc = "done" =>
        \A i, j \in 1..Len(bEvents) :
            (bEvents[i].title = bEvents[j].title /\ SameSpan(bEvents[i], bEvents[j]))
                <=> (bUids[i] = bUids[j])

\* C7 as amended: the UID is a function of the title build_ics uses (the given
\* title, or the placeholder MyVMK Event when the given title is empty or
\* absent), the start and the end: two events get the same UID exactly when
\* these three agree.
C7_UidOfUsedTitle ==
    bPc = "done" =>
        \A i, j \in 1..Len(bEvents) :
            (/\ TitleOrPlaceholder(bEvents[i].title) = TitleOrPlaceholder(bEvents[j].title)
             /\ SameSpan(bEvents[i], bEvents[j]))
                <=> (bUids[i] = bUids[j])

\* C7's case: two events that differ only in their end got different UIDs, and
\* an untitled event got the UID of the event titled with the placeholder
C7_Witness ==
    /\ bPc = "done" /\ Len(bEvents) = 2
    /\ \/ /\ bEvents[1].title = bEvents[2].title
          /\ bEvents[1].start = bEvents[2].start
          /\ bEvents[1].end # bEvents[2].end
          /\ bUids[1] # bUids[2]
       \/ /\ bEvents[1].title = SomeText(<<>>)
          /\ bEvents[2].title = SomeText(Placeholder)
          /\ SameSpan(bEvents[1], bEvents[2])
          /\ bUids[1] = bUids[2]

\* the text cut at every line break
SplitLines(s) ==
    LET breaks == SortedSeq({k \in 1..Len(s) : s[k] = "\n"})
        from(i) == IF i = 1 THEN 1 ELSE breaks[i - 1] + 1
        to(i) == IF i = Len(breaks) + 1 THEN Len(s) ELSE breaks[i] - 1
    IN  [i \in 1..(Len(breaks) + 1) |-> SubSeq(s, from(i), to(i))]

HasPrefix(line, pre) == Len(line) >= Len(pre) /\ SubSeq(line, 1, Len(pre)) = pre

\* what a line of the document is, read by its beginning
LineKind(l) ==
    CASE l = <<"B", "E", "G", "I", "N", ":", "V", "C", "A", "L", "E", "N", "D", "A", "R">> -> "wrapper open"
      [] l = <<"E", "N", "D", ":", "V", "C", "A", "L", "E", "N", "D", "A", "R">> -> "wrapper close"
      [] l = <<"B", "E", "G", "I", "N", ":", "V", "E", "V", "E", "N", "T">> -> "block open"
      [] l = <<"E", "N", "D", ":", "V", "E", "V", "E", "N", "T">> -> "block close"
      [] HasPrefix(l, <<"V", "E", "R", "S", "I", "O", "N", ":">>) -> "version"
      [] HasPrefix(l, <<"P", "R", "O", "D", "I", "D", ":">>) -> "product identifier"
      [] HasPrefix(l, <<"C", "A", "L", "S", "C", "A", "L", "E", ":">>) -> "calendar scale"
      [] HasPrefix(l, <<"X", "-", "W", "R", "-", "C", "A", "L", "N", "A", "M", "E", ":">>) -> "display name"
      [] HasPrefix(l, <<"D", "T", "S", "T", "A", "M", "P", ":">>) -> "generation timestamp"
      [] HasPrefix(l, <<"U", "I", "D", ":">>) -> "identifier"
      [] HasPrefix(l, <<"S", "U", "M", "M", "A", "R", "Y", ":">>) -> "summary"
      [] HasPrefix(l, <<"D", "T", "S", "T", "A", "R", "T">>) -> "start time"
      [] HasPrefix(l, <<"D", "T", "E", "N", "D">>) -> "end time"
      [] HasPrefix(l, <<"D", "E", "S", "C", "R", "I", "P", "T", "I", "O", "N", ":">>) -> "description"
      [] OTHER -> "other"

RECURSIVE BlockKinds(_)
\* the lines the document structure asks for, one block per event
BlockKinds(evs) ==
    IF evs = <<>> THEN <<>>
    ELSE <<"block open", "generation timestamp", "identifier", "summary",
           "start time", "end time">>
         \o (IF Truthy(Head(evs).source) THEN <<"description">> ELSE <<>>)
         \o <<"block close">>
         \o BlockKinds(Tail(evs))

DocumentKinds(evs) ==
    <<"wrapper open", "version", "product identifier", "calendar scale", "display name">>
        \o BlockKinds(evs) \o <<"wrapper close">>

\* the lines of a text that ends with a line break
LinesOf(doc) ==
    LET pieces == SplitLines(doc) IN SubSeq(pieces, 1, Len(pieces) - 1)

StructureOk(doc, evs, stamp) ==
    LET lines == LinesOf(doc)
        kinds == [i \in 1..Len(lines) |-> LineKind(lines[i])]
        count(kind) == Cardinality({i \in 1..Len(lines) : kinds[i] = kind})
    IN  /\ doc # <<>> /\ doc[Len(doc)] = "\n"
        /\ kinds = DocumentKinds(evs)
        /\ count("block open") = Len(evs)
        /\ count("block close") = Len(evs)
        /\ \A i \in 1..Len(lines) :
               kinds[i] = "generation timestamp" => lines[i] = <<"D", "T", "S", "T", "A", "M", "P", ":">> \o stamp

\* C8: for every event sequence, the empty one included, and every title and
\* source text, the document build_ics returns is, line by line: wrapper open,
\* version, product identifier, calendar scale, display name, then one block
\* per event in order (block open, generation timestamp, identifier, summary,
\* start time, end time, optional description, block close), then wrapper
\* close; as many blocks are opened and closed as there are events, and all
\* blocks carry the same generation timestamp.
C8_DocumentStructure ==
    bPc = "done" => StructureOk(bDoc, bEvents, bNow)

(***************************************************************************)
(* Claims about a run (Spec, SpecVerbose).                                 *)
(***************************************************************************)
\* the run is over, and the environment failed neither the rendering nor a
\* file write
EndedUnhindered == pc = "exit" /\ render_ok /\ debug_ok /\ out_ok

\* C2: a run ends with an error only if rendering or writing the output
\* failed: whatever the rendered page holds (an unparsable header, a day cell
\* with a missing, non-numeric or invalid label, an absent or malformed time
\* text, range-shaped text with invalid clock digits included, an entry with
\* neither title nor time), the run completes and writes the feed.
C2_PageNeverFailsTheRun ==
    EndedUnhindered => (exit_status = 0 /\ out_file = ics_text)

\* C3: an override always decides its own field, whether or not the header
\* was parsed and whether or not the other override is given; a field takes
\* the header's value only when its own override is absent; today's date is
\* used only when no header was matched and no override is given.
C3_OverridesIndependent ==
    year # 0 =>
        /\ forced_year # 0 => year = forced_year
        /\ forced_month # 0 => month = forced_month
        /\ (forced_year = 0 /\ scene.header = "parsed") => year = 2025
        /\ (forced_month = 0 /\ scene.header = "parsed") => month = 10
        /\ (year = Today.y \/ month = Today.m) =>
               (scene.header # "parsed" /\ forced_year = 0 /\ forced_month = 0)

\* element n lies in a day container that carries the hidden marker
InHiddenDay(soup, n) ==
    \E a \in 1..Len(soup) :
        /\ soup[a].tag = "div"
        /\ HasToken(soup[a].cls, "day") /\ HasToken(soup[a].cls, "hidden")
        /\ IsInside(soup, n, a)

\* the title an entry is listed under
ShownTitle(soup, li) ==
    IF EntryTitle(soup, li) = <<>> THEN Placeholder ELSE EntryTitle(soup, li)

\* the titles of the entries that lie in hidden day containers; the cells of
\* a page have titles of their own, so that a title tells where an event is from
HiddenTitles(soup) ==
    {ShownTitle(soup, li) : li \in {n \in 1..Len(soup) :
        /\ soup[n].tag = "li" /\ HasToken(soup[n].cls, "event-li")
        /\ InHiddenDay(soup, n)
        /\ (EntryTitle(soup, n) # <<>> \/ EntryTime(soup, n) # <<>>)}}

\* C4: no event entry that lies in a day container carrying the hidden marker
\* is among the extracted events (of which the feed is made), whatever the
\* nesting and even when the container carries the day marker too.
C4_HiddenNeverExtracted ==
    \A i \in 1..Len(events) : events[i].title.v \notin HiddenTitles(html)

\* the lines of a feed but for the generation timestamps
SansStamp(doc) ==
    LET lines == LinesOf(doc)
    IN  SelectSeq(lines, LAMBDA l : LineKind(l) # "generation timestamp")

\* C5: a run with --verbose and a run without it, on the same page, overrides
\* and environment, end with the same exit status, the same events and the
\* same feed apart from the generation timestamp.
C5_VerboseSameOutcome ==
    (prior.ran /\ pc = "exit") =>
        /\ exit_status = prior.exit_status
        /\ exit_status = 0 =>
               (events = prior.events /\ SansStamp(out_file) = SansStamp(prior.out_file))

\* the label of a day cell is absent or non-numeric, or names no day of the
\* month y-mo
LabelBad(cell, y, mo) ==
    \/ ~cell.label.some
    \/ ~IsDigitStr(Strip(cell.label.v))
    \/ ~ValidDate(y, mo, DayNumber(Strip(cell.label.v)))

\* the event of one copy of the day cell B in the month y-mo
EventB(y, mo) ==
    Event(SomeText(TitleB), Dt(y, mo, 15, 18, 0), Dt(y, mo, 15, 19, 0), SomeText(Url))

\* C10: a day container whose label is absent or non-numeric, or whose date is
\* no calendar date, contributes no event and raises nothing, and the events
\* of the other day containers are still extracted; day 31 in October 2025
\* gives events dated 2025-10-31.
C10_BadDayCellSkipped ==
    (EndedUnhindered /\ scene.layout = "beside") =>
        /\ LabelBad(scene.a, year, month) =>
               (exit_status = 0 /\ events = [i \in 1..scene.k |-> EventB(year, month)])
        /\ (/\ exit_status = 0
            /\ scene.a.label = SomeText(<<"3", "1">>) /\ scene.a.title # <<>>
            /\ ~scene.a.hidden
            /\ year = 2025 /\ month = 10) =>
               (events # <<>> /\ DateOf(events[1].start) = Date(2025, 10, 31))

====
